---- MODULE Spec2Model ----
(***************************************************************************)
(* wrci: a line-oriented pipeline DSL.  PipelineParser turns the token     *)
(* list into an AST (nested dicts and lists) plus a variable seed;         *)
(* PipelineExecutor walks the AST, driving docker through subprocess.run.  *)
(*                                                                         *)
(* Representation.  Python lists and dicts are references, so the AST is   *)
(* kept as an arena: `nodes` holds the node dicts, `blocks` holds the      *)
(* statement lists ("body" lists and self.ast, which is block 1), and a    *)
(* node's "body" is the index of its list.  A token is a source line       *)
(* already classified by the first regular expression of parse() that      *)
(* matches it (kind "JUNK": none matches).  The Python call stack of       *)
(* execute / run_pipeline / execute_block is the sequence `frames`.        *)
(* subprocess.run is taken to return a CompletedProcess (no check=True in  *)
(* the source), except where an argument is None, which raises TypeError.  *)
(***************************************************************************)
EXTENDS Integers, Sequences, FiniteSets, TLC

\* Longest token list that is enumerated exhaustively over Alphabet.
MaxTokens == 3
\* Exit codes of docker exec / docker kill range over 0..MaxRc.
MaxRc == 1

\* Python None (an absent PIPELINE parameter, a missing container id).
PyNone == "<None>"
\* A dict key that is absent ("else" not in node), a node without a body.
Absent == 0

\* Python truthiness of an optional string: None and "" are falsy.
Truthy(s) == s \notin {PyNone, ""}

Last(s) == s[Len(s)]
ButLast(s) == SubSeq(s, 1, Len(s) - 1)

----------------------------------------------------------------------------
\* Tokens

Token == [kind |-> "", helper_image |-> PyNone, start_command |-> PyNone,
          name |-> PyNone, script |-> "", variable |-> "", operator |-> "",
          value |-> "", message |-> << >>]

\* The text of a MSG line, in pieces: plain text, or a $name placeholder
\* (its text as written, and the name it refers to).
Text(t) == << [text |-> t, var |-> ""] >>
Ref(t, n) == << [text |-> t, var |-> n] >>

TPipeline(img, cmd, nm) ==
    [Token EXCEPT !.kind = "PIPELINE", !.helper_image = img,
                  !.start_command = cmd, !.name = nm]
TStep(s) == [Token EXCEPT !.kind = "STEP", !.script = s]
TIf(var, op, val) ==
    [Token EXCEPT !.kind = "IF", !.variable = var, !.operator = op, !.value = val]
TElse == [Token EXCEPT !.kind = "ELSE"]
TMsg(m) == [Token EXCEPT !.kind = "MSG", !.message = m]
TAssign(n, v) == [Token EXCEPT !.kind = "ASSIGN", !.name = n, !.value = v]
TEnd == [Token EXCEPT !.kind = "END"]
TExit == [Token EXCEPT !.kind = "EXIT"]
TJunk == [Token EXCEPT !.kind = "JUNK"]

\* The lines the exhaustive part of the input space is built from.
Alphabet ==
    { TPipeline("img", "sleep", "a"), TPipeline(PyNone, PyNone, "b"),
      TPipeline(PyNone, PyNone, PyNone),
      TStep("s.sh"), TIf("X", "==", "None"), TIf("X", "!=", "1"),
      TElse, TMsg(Text("m")), TAssign("X", "1"), TEnd, TExit, TJunk }

ShortPrograms == UNION { [1..k -> Alphabet] : k \in 0..MaxTokens }

\* Longer programs, one per situation the executor can be in.
Scenarios ==
    { \* the script at the end of wrci.py
      << TPipeline("debian", "sleep", "compile-verify"), TMsg(Text("Outer pipeline")),
         TAssign("wrciarch", "armv7"),
         TPipeline(PyNone, PyNone, "deploy"), TMsg(Text("Inner pipeline")), TExit,
         TMsg(Text("End of Inner pipeline")), TEnd,
         TStep("step-envvar.sh"), TMsg(Text("End of outer pipeline")), TEnd >>,
      \* a step followed by a test of LAST_RC
      << TPipeline("img", PyNone, "p"), TMsg(Text("hi ") \o Ref("$LAST_RC", "LAST_RC")), TStep("a.sh"),
         TIf("LAST_RC", "==", "0"), TMsg(Text("ok")), TElse, TMsg(Text("fail")), TEnd, TEnd >>,
      \* the same name referenced twice
      << TPipeline("img", PyNone, "a"), TPipeline("img", PyNone, "b"), TEnd,
         TPipeline("img", PyNone, "b"), TEnd, TEnd >>,
      \* EXIT three levels deep: pipeline -> pipeline -> if -> else
      << TPipeline("img", PyNone, "a"), TPipeline("img", PyNone, "b"),
         TIf("X", "==", "1"), TMsg(Text("then")), TElse, TExit, TMsg(Text("skipped")), TEnd,
         TStep("b.sh"), TEnd, TStep("a.sh"), TEnd >>,
      \* EXIT reached only on the second pass over a body
      << TPipeline("img", PyNone, "a"), TIf("X", "==", "1"), TExit, TEnd,
         TAssign("X", "1"), TMsg(Text("after")), TEnd >>,
      \* a step after a nested pipeline with its own image
      << TPipeline("img", PyNone, "a"), TPipeline("img", PyNone, "b"), TEnd,
         TStep("s.sh"), TEnd >>,
      \* a step after a nested pipeline running in the parent's container
      << TPipeline("img", PyNone, "a"), TPipeline(PyNone, PyNone, "b"),
         TStep("b.sh"), TEnd, TStep("a.sh"), TEnd >>,
      \* a nameless pipeline below two registered ones
      << TPipeline("img", PyNone, "a"), TPipeline("img", PyNone, "b"),
         TPipeline(PyNone, PyNone, PyNone), TEnd, TEnd, TEnd >>,
      \* two top-level pipelines, the second without an image
      << TPipeline("img", PyNone, "a"), TMsg(Text("m")), TEnd,
         TPipeline(PyNone, PyNone, "b"), TEnd >>,
      \* a message with placeholders for an assigned, a seeded and an unknown name
      << TPipeline("img", PyNone, "p"), TAssign("X", "1"),
         TMsg(Text("x is ") \o Ref("$X", "X") \o Text(", image ")
              \o Ref("$helper_image", "helper_image") \o Ref("$Y", "Y")), TEnd >>,
      \* IF / ELSE / ELSE and an assignment seen by a later IF
      << TPipeline("img", PyNone, "a"), TAssign("X", "1"),
         TIf("X", "!=", "1"), TMsg(Text("ne")), TElse, TMsg(Text("e1")), TElse, TMsg(Text("e2")),
         TEnd, TEnd >>,
      \* a step after an IF whose body holds a nested pipeline
      << TPipeline("img", PyNone, "a"), TIf("X", "!=", "1"),
         TPipeline("img", PyNone, "b"), TEnd, TEnd, TStep("s.sh"), TEnd >> }

Programs == ShortPrograms \cup Scenarios

----------------------------------------------------------------------------
VARIABLES
    tokens,              \* PipelineParser.tokens
    pos,                 \* tokens consumed by the iterator of parse()
    stack,               \* parse(): stack of enclosing blocks
    current_block,       \* parse(): the block statements are appended to
    nodes,               \* the node dicts of the AST
    blocks,              \* the statement lists of the AST; blocks[1] is self.ast
    variables,           \* PipelineParser.variables = PipelineExecutor.variables
    phase,               \* "parse", "parse_error", "exec", "except", "finally", "done"
    exc,                 \* the exception being raised, "" when none
    frames,              \* call stack of the executor
    last_rc,             \* PipelineExecutor.last_rc
    running_containers,  \* PipelineExecutor.running_containers, insertion-ordered
    calls,               \* the subprocess.run calls made so far
    printed,             \* the "Message: ..." lines printed so far
    ran,                 \* the nodes dispatched by execute_block so far
    nextId,              \* containers docker has started so far
    caught               \* times ExecutionStopped was caught

vars == << tokens, pos, stack, current_block, nodes, blocks, variables, phase,
           exc, frames, last_rc, running_containers, calls, printed, ran,
           nextId, caught >>

parserVars == << tokens, pos, stack, current_block, nodes, blocks, variables >>
astVars == << tokens, pos, stack, current_block, nodes, blocks >>
execVars == << frames, last_rc, running_containers, calls, printed, ran,
               nextId, caught >>

SyntaxErrorEnd == "SyntaxError: END without matching block"
IndexErrorPop == "IndexError: pop from empty list"
ValueErrorName == "ValueError: Pipeline must have a 'name' to assign a container"
ValueErrorParent == "ValueError: no helper_image and no parent container"
TypeErrorNone == "TypeError: expected str, bytes or os.PathLike object, not NoneType"
ExecutionStopped == "ExecutionStopped"

\* dict assignment d[k] = v
DictSet(d, k, v) == [x \in DOMAIN d \cup {k} |-> IF x = k THEN v ELSE d[x]]
EmptyDict == [x \in {} |-> ""]

----------------------------------------------------------------------------
\* PipelineParser

Node == [type |-> "", helper_image |-> PyNone, start_command |-> PyNone,
         name |-> PyNone, script |-> "", variable |-> "", operator |-> "",
         value |-> "", message |-> << >>, body |-> Absent, else |-> Absent]

\* current_block.append(node)
AppendTo(bs, b, id) == [bs EXCEPT ![b] = Append(@, id)]

NextToken == tokens[pos + 1]
Parsing == phase = "parse" /\ pos < Len(tokens)

\* lines 44-49: the parameters of every PIPELINE line are copied
SeedVariables(vs, t) ==
    LET v1 == IF Truthy(t.helper_image)
              THEN DictSet(vs, "helper_image", t.helper_image) ELSE vs
        v2 == IF Truthy(t.start_command)
              THEN DictSet(v1, "start_command", t.start_command) ELSE v1
    IN  IF Truthy(t.name) THEN DictSet(v2, "pipeline_name", t.name) ELSE v2

\* Opening a block: append the node, push the current block, descend.
OpenBlock(node) ==
    LET id == Len(nodes) + 1
        b  == Len(blocks) + 1
    IN  /\ nodes' = Append(nodes, [node EXCEPT !.body = b])
        /\ blocks' = Append(AppendTo(blocks, current_block, id), << >>)
        /\ stack' = Append(stack, current_block)
        /\ current_block' = b

\* Appending a statement without a body.
AppendStatement(node) ==
    /\ nodes' = Append(nodes, node)
    /\ blocks' = AppendTo(blocks, current_block, Len(nodes) + 1)
    /\ UNCHANGED << stack, current_block >>

ParsePipeline ==
    /\ Parsing /\ NextToken.kind = "PIPELINE"
    /\ variables' = SeedVariables(variables, NextToken)
    /\ OpenBlock([Node EXCEPT !.type = "PIPELINE",
                              !.helper_image = NextToken.helper_image,
                              !.start_command = NextToken.start_command,
                              !.name = NextToken.name])
    /\ pos' = pos + 1
    /\ UNCHANGED << tokens, phase, exc, execVars >>

ParseStep ==
    /\ Parsing /\ NextToken.kind = "STEP"
    /\ AppendStatement([Node EXCEPT !.type = "STEP", !.script = NextToken.script])
    /\ pos' = pos + 1
    /\ UNCHANGED << tokens, variables, phase, exc, execVars >>

ParseIf ==
    /\ Parsing /\ NextToken.kind = "IF"
    /\ OpenBlock([Node EXCEPT !.type = "IF", !.variable = NextToken.variable,
                              !.operator = NextToken.operator,
                              !.value = NextToken.value])
    /\ pos' = pos + 1
    /\ UNCHANGED << tokens, variables, phase, exc, execVars >>

\* lines 78-83
ParseElse ==
    /\ Parsing /\ NextToken.kind = "ELSE"
    /\ pos' = pos + 1
    /\ \/ /\ stack = << >>                       \* stack.pop() on an empty list
          /\ phase' = "parse_error" /\ exc' = IndexErrorPop
          /\ UNCHANGED << stack, current_block, nodes, blocks >>
       \/ /\ stack # << >>
          /\ LET parent_block == Last(stack)
                 owner == Last(blocks[parent_block])
                 id == Len(nodes) + 1
                 b  == Len(blocks) + 1
             IN  /\ nodes' = Append([nodes EXCEPT ![owner].else = id],
                                    [Node EXCEPT !.type = "ELSE", !.body = b])
                 /\ blocks' = Append(blocks, << >>)
                 /\ current_block' = b
          /\ UNCHANGED << stack, phase, exc >>
    /\ UNCHANGED << tokens, variables, execVars >>

ParseMsg ==
    /\ Parsing /\ NextToken.kind = "MSG"
    /\ AppendStatement([Node EXCEPT !.type = "MSG", !.message = NextToken.message])
    /\ pos' = pos + 1
    /\ UNCHANGED << tokens, variables, phase, exc, execVars >>

ParseAssign ==
    /\ Parsing /\ NextToken.kind = "ASSIGN"
    /\ AppendStatement([Node EXCEPT !.type = "ASSIGN", !.name = NextToken.name,
                                    !.value = NextToken.value])
    /\ pos' = pos + 1
    /\ UNCHANGED << tokens, variables, phase, exc, execVars >>

\* lines 95-100
ParseEnd ==
    /\ Parsing /\ NextToken.kind = "END"
    /\ pos' = pos + 1
    /\ \/ /\ stack # << >>
          /\ current_block' = Last(stack)
          /\ stack' = ButLast(stack)
          /\ UNCHANGED << phase, exc >>
       \/ /\ stack = << >>
          /\ phase' = "parse_error" /\ exc' = SyntaxErrorEnd
          /\ UNCHANGED << stack, current_block >>
    /\ UNCHANGED << tokens, nodes, blocks, variables, execVars >>

ParseExit ==
    /\ Parsing /\ NextToken.kind = "EXIT"
    /\ AppendStatement([Node EXCEPT !.type = "EXIT"])
    /\ pos' = pos + 1
    /\ UNCHANGED << tokens, variables, phase, exc, execVars >>

\* A line no branch of the if/elif chain matches: the chain has no else.
ParseUnmatched ==
    /\ Parsing /\ NextToken.kind = "JUNK"
    /\ pos' = pos + 1
    /\ UNCHANGED << tokens, stack, current_block, nodes, blocks, variables,
                    phase, exc, execVars >>

----------------------------------------------------------------------------
\* PipelineExecutor

\* A stack frame of execute ("execute"), run_pipeline ("run_pipeline") or
\* execute_block ("block"): its arguments and locals, and where it stands.
\*   execute:      i = index of the for loop over self.ast; pc "loop" | "ran"
\*   run_pipeline: node = the pipeline, cid = parent_container_id;
\*                 pc "start" (line 217) | "stop" (line 219)
\*   block:        block, i = index of the for loop, cid = container_id,
\*                 pname = pipeline_name; pc "loop" | "ran" (line 241)
Frame == [fn |-> "", block |-> Absent, i |-> 0, cid |-> PyNone,
          pname |-> PyNone, node |-> Absent, pc |-> ""]

Top == Last(frames)
SetTop(f) == [frames EXCEPT ![Len(frames)] = f]
Executing == phase = "exec" /\ frames # << >>

BlockFrame(b, cid, pname) ==
    [Frame EXCEPT !.fn = "block", !.block = b, !.i = 1, !.cid = cid,
                  !.pname = pname, !.pc = "loop"]
RunPipelineFrame(n, parent) ==
    [Frame EXCEPT !.fn = "run_pipeline", !.node = n, !.cid = parent, !.pc = "start"]

\* A subprocess.run call, as the docker command line it carries.
Call == [op |-> "", cid |-> PyNone, name |-> PyNone, image |-> PyNone,
         command |-> PyNone, path |-> << >>, env |-> EmptyDict, rc |-> 0]

\* The ids docker run prints, one per container started.
ContainerIds == << "c1", "c2", "c3", "c4", "c5", "c6", "c7", "c8", "c9", "c10",
                   "c11", "c12", "c13", "c14", "c15", "c16" >>

\* running_containers is a dict: a sequence of [name, cid] in insertion order.
Registered(reg, nm) == \E k \in 1..Len(reg) : reg[k].name = nm
Lookup(reg, nm) == reg[CHOOSE k \in 1..Len(reg) : reg[k].name = nm].cid

\* An exception leaves every frame; execute's try statement handles it.
Raise(e) ==
    /\ frames' = << >>
    /\ exc' = e
    /\ phase' = "except"

\* lines 117-154.  `ok`: whether docker run started the container; when it
\* did not, its stdout is empty and "" is registered as the container id.
\* The result: the exception raised (or ""), the value returned, and the
\* fields of the executor and the calls as they are afterwards.
start_container(pipeline, parent_container_id, ok) ==
    LET same == [exc |-> "", ret |-> PyNone, running_containers |-> running_containers,
                 calls |-> calls, nextId |-> nextId]
        container_id == IF ok THEN ContainerIds[nextId + 1] ELSE ""
    IN  IF ~Truthy(pipeline.name)
        THEN [same EXCEPT !.exc = ValueErrorName]
        ELSE IF Registered(running_containers, pipeline.name)
        THEN [same EXCEPT !.ret = Lookup(running_containers, pipeline.name)]
        ELSE IF ~Truthy(pipeline.helper_image)
        THEN IF Truthy(parent_container_id)
             THEN [same EXCEPT !.ret = parent_container_id]
             ELSE [same EXCEPT !.exc = ValueErrorParent]
        ELSE [exc |-> "",
              ret |-> container_id,
              running_containers |->
                  Append(running_containers,
                         [name |-> pipeline.name, cid |-> container_id]),
              calls |-> Append(calls,
                  [Call EXCEPT !.op = "run", !.name = pipeline.name,
                               !.image = pipeline.helper_image,
                               !.command = pipeline.start_command,
                               !.cid = container_id,
                               !.rc = IF ok THEN 0 ELSE 1]),
              nextId |-> IF ok THEN nextId + 1 ELSE nextId]

\* lines 188-194: docker kill for every entry, whatever the previous kill
\* returned (rcs[k] is the exit code of the k-th kill), then clear().
KillCalls(reg, rcs) ==
    [k \in 1..Len(reg) |->
        [Call EXCEPT !.op = "kill", !.cid = reg[k].cid, !.name = reg[k].name,
                     !.rc = rcs[k]]]

\* The sweep as it would be with the kill checked: it ends at the first
\* docker kill that fails.
stop_all_containers_until_failure ==
    \E rcs \in [1..Len(running_containers) -> {0, 1}] :
        LET failing == { k \in 1..Len(running_containers) : rcs[k] # 0 }
            n == IF failing = {} THEN Len(running_containers)
                 ELSE CHOOSE k \in failing : \A m \in failing : k <= m
        IN  /\ calls' = calls \o SubSeq(KillCalls(running_containers, rcs), 1, n)
            /\ running_containers' = << >>

stop_all_containers ==
    \E rcs \in [1..Len(running_containers) -> {0, 1}] :
        /\ calls' = calls \o KillCalls(running_containers, rcs)
        /\ running_containers' = << >>

\* lines 196-214.  A None container id in the argument list makes
\* subprocess.run raise TypeError before docker is started.
run_step(script, pipeline_name, container_id, rc) ==
    LET script_path == IF Truthy(pipeline_name)
                       THEN << "/pipeline", pipeline_name, script >>
                       ELSE << "/pipeline", script >>
    IN  IF container_id = PyNone
        THEN [exc |-> TypeErrorNone, calls |-> calls, last_rc |-> last_rc]
        ELSE [exc |-> "",
              calls |-> Append(calls,
                  [Call EXCEPT !.op = "exec", !.cid = container_id,
                               !.path = script_path, !.env = variables,
                               !.rc = rc]),
              last_rc |-> rc]

\* lines 302-310: the parser is done; the executor is built and execute() entered.
ParseFinish ==
    /\ phase = "parse" /\ pos = Len(tokens)
    /\ phase' = "exec"
    /\ frames' = << [Frame EXCEPT !.fn = "execute", !.i = 1, !.pc = "loop"] >>
    /\ last_rc' = 0
    /\ running_containers' = << >>
    /\ UNCHANGED << parserVars, exc, calls, printed, ran, nextId, caught >>

\* lines 224-226
ExecuteLoop ==
    /\ Executing /\ Top.fn = "execute" /\ Top.pc = "loop"
    /\ \/ /\ Top.i > Len(blocks[1])
          /\ frames' = << >>
          /\ phase' = "finally"
          /\ UNCHANGED ran
       \/ /\ Top.i <= Len(blocks[1])
          /\ nodes[blocks[1][Top.i]].type = "PIPELINE"
          /\ frames' = Append(SetTop([Top EXCEPT !.pc = "ran"]),
                              RunPipelineFrame(blocks[1][Top.i], PyNone))
          /\ ran' = Append(ran, blocks[1][Top.i])
          /\ UNCHANGED phase
       \/ /\ Top.i <= Len(blocks[1])
          /\ nodes[blocks[1][Top.i]].type # "PIPELINE"
          /\ frames' = SetTop([Top EXCEPT !.i = @ + 1])
          /\ UNCHANGED << phase, ran >>
    /\ UNCHANGED << parserVars, exc, last_rc, running_containers, calls,
                    printed, nextId, caught >>

\* line 227: run_pipeline returned None; the body is walked with it.
ExecuteBody ==
    /\ Executing /\ Top.fn = "execute" /\ Top.pc = "ran"
    /\ LET node == nodes[blocks[1][Top.i]]
       IN  frames' = Append(SetTop([Top EXCEPT !.cid = PyNone, !.i = @ + 1,
                                               !.pc = "loop"]),
                            BlockFrame(node.body, PyNone, node.name))
    /\ UNCHANGED << parserVars, phase, exc, last_rc, running_containers, calls,
                    printed, ran, nextId, caught >>

\* lines 217-218
RunPipelineStart ==
    /\ Executing /\ Top.fn = "run_pipeline" /\ Top.pc = "start"
    /\ \E ok \in BOOLEAN :
         LET r == start_container(nodes[Top.node], Top.cid, ok)
         IN  /\ running_containers' = r.running_containers
             /\ calls' = r.calls
             /\ nextId' = r.nextId
             /\ IF r.exc # ""
                THEN Raise(r.exc)
                ELSE /\ frames' = Append(SetTop([Top EXCEPT !.pc = "stop"]),
                                         BlockFrame(nodes[Top.node].body, r.ret, PyNone))
                     /\ UNCHANGED << phase, exc >>
    /\ UNCHANGED << parserVars, last_rc, printed, ran, caught >>

\* line 219, and the return of None
RunPipelineStop ==
    /\ Executing /\ Top.fn = "run_pipeline" /\ Top.pc = "stop"
    /\ stop_all_containers
    /\ frames' = ButLast(frames)
    /\ UNCHANGED << parserVars, phase, exc, last_rc, printed, ran, nextId, caught >>

InBlock == Executing /\ Top.fn = "block" /\ Top.pc = "loop"
AtNode == InBlock /\ Top.i <= Len(blocks[Top.block])
CurId == blocks[Top.block][Top.i]
Cur == nodes[CurId]
Advance == [Top EXCEPT !.i = @ + 1]

\* line 238: the for loop is exhausted
BlockReturn ==
    /\ InBlock /\ Top.i > Len(blocks[Top.block])
    /\ frames' = ButLast(frames)
    /\ UNCHANGED << parserVars, phase, exc, last_rc, running_containers, calls,
                    printed, ran, nextId, caught >>

\* lines 239-240
BlockPipeline ==
    /\ AtNode /\ Cur.type = "PIPELINE"
    /\ frames' = Append(SetTop([Top EXCEPT !.pc = "ran"]),
                        RunPipelineFrame(CurId, Top.cid))
    /\ ran' = Append(ran, CurId)
    /\ UNCHANGED << parserVars, phase, exc, last_rc, running_containers, calls,
                    printed, nextId, caught >>

\* lines 240-241: container_id = None (what run_pipeline returned), then the
\* body is walked again
BlockPipelineBody ==
    /\ Executing /\ Top.fn = "block" /\ Top.pc = "ran"
    /\ frames' = Append(SetTop([Top EXCEPT !.cid = PyNone, !.i = @ + 1,
                                           !.pc = "loop"]),
                        BlockFrame(Cur.body, PyNone, Cur.name))
    /\ UNCHANGED << parserVars, phase, exc, last_rc, running_containers, calls,
                    printed, ran, nextId, caught >>

\* line 244: the f-string prints the message as it was written
MessageText(message) == [k \in 1..Len(message) |-> message[k].text]

\* lines 243-244
BlockMsg ==
    /\ AtNode /\ Cur.type = "MSG"
    /\ printed' = Append(printed, MessageText(Cur.message))
    /\ frames' = SetTop(Advance)
    /\ ran' = Append(ran, CurId)
    /\ UNCHANGED << parserVars, phase, exc, last_rc, running_containers, calls,
                    nextId, caught >>

\* lines 246-247
BlockStep ==
    /\ AtNode /\ Cur.type = "STEP"
    /\ ran' = Append(ran, CurId)
    /\ \E rc \in 0..MaxRc :
         LET r == run_step(Cur.script, Top.pname, Top.cid, rc)
         IN  /\ calls' = r.calls
             /\ last_rc' = r.last_rc
             /\ IF r.exc # ""
                THEN Raise(r.exc)
                ELSE /\ frames' = SetTop(Advance)
                     /\ UNCHANGED << phase, exc >>
    /\ UNCHANGED << parserVars, running_containers, printed, nextId, caught >>

\* lines 249-250
BlockAssign ==
    /\ AtNode /\ Cur.type = "ASSIGN"
    /\ variables' = DictSet(variables, Cur.name, Cur.value)
    /\ frames' = SetTop(Advance)
    /\ ran' = Append(ran, CurId)
    /\ UNCHANGED << astVars, phase, exc, last_rc, running_containers, calls,
                    printed, nextId, caught >>

\* str(self.variables.get(var_name)): the text of the value, "None" when absent
StrOfGet(vs, var_name) == IF var_name \in DOMAIN vs THEN vs[var_name] ELSE "None"

\* lines 258-265: the block an IF runs, Absent when it runs none
IfBranch(node, vs) ==
    LET actual == StrOfGet(vs, node.variable)
    IN  IF node.operator = "==" /\ actual = node.value THEN node.body
        ELSE IF node.operator = "!=" /\ actual # node.value THEN node.body
        ELSE IF node.else # Absent THEN nodes[node.else].body
        ELSE Absent

\* lines 252-265
BlockIf ==
    /\ AtNode /\ Cur.type = "IF"
    /\ ran' = Append(ran, CurId)
    /\ LET b == IfBranch(Cur, variables)
       IN  IF b = Absent
           THEN frames' = SetTop(Advance)
           ELSE frames' = Append(SetTop(Advance), BlockFrame(b, Top.cid, Top.pname))
    /\ UNCHANGED << parserVars, phase, exc, last_rc, running_containers, calls,
                    printed, nextId, caught >>

\* EXIT as it would be if it ended the innermost block only (a return).
BlockExitReturn ==
    /\ AtNode /\ Cur.type = "EXIT"
    /\ ran' = Append(ran, CurId)
    /\ frames' = ButLast(frames)
    /\ UNCHANGED << parserVars, phase, exc, last_rc, running_containers, calls,
                    printed, nextId, caught >>

\* lines 273-274
BlockExit ==
    /\ AtNode /\ Cur.type = "EXIT"
    /\ ran' = Append(ran, CurId)
    /\ Raise(ExecutionStopped)
    /\ UNCHANGED << parserVars, last_rc, running_containers, calls, printed,
                    nextId, caught >>

\* lines 228-229: ExecutionStopped is handled; anything else keeps propagating
Except ==
    /\ phase = "except"
    /\ \/ /\ exc = ExecutionStopped
          /\ exc' = ""
          /\ caught' = caught + 1
       \/ /\ exc # ExecutionStopped
          /\ UNCHANGED << exc, caught >>
    /\ phase' = "finally"
    /\ UNCHANGED << parserVars, frames, last_rc, running_containers, calls,
                    printed, ran, nextId >>

\* lines 230-231
Finally ==
    /\ phase = "finally"
    /\ stop_all_containers
    /\ phase' = "done"
    /\ UNCHANGED << parserVars, exc, frames, last_rc, printed, ran, nextId, caught >>

----------------------------------------------------------------------------
Init ==
    /\ tokens \in Programs
    /\ pos = 0
    /\ stack = << >>
    /\ current_block = 1
    /\ nodes = << >>
    /\ blocks = << << >> >>
    /\ variables = EmptyDict
    /\ phase = "parse"
    /\ exc = ""
    /\ frames = << >>
    /\ last_rc = 0
    /\ running_containers = << >>
    /\ calls = << >>
    /\ printed = << >>
    /\ ran = << >>
    /\ nextId = 0
    /\ caught = 0

Next ==
    \/ ParsePipeline
    \/ ParseStep
    \/ ParseIf
    \/ ParseElse
    \/ ParseMsg
    \/ ParseAssign
    \/ ParseEnd
    \/ ParseExit
    \/ ParseUnmatched
    \/ ParseFinish
    \/ ExecuteLoop
    \/ ExecuteBody
    \/ RunPipelineStart
    \/ RunPipelineStop
    \/ BlockReturn
    \/ BlockPipeline
    \/ BlockPipelineBody
    \/ BlockMsg
    \/ BlockStep
    \/ BlockAssign
    \/ BlockIf
    \/ BlockExit
    \/ Except
    \/ Finally

Spec == Init /\ [][Next]_vars

----------------------------------------------------------------------------
\* Properties

RunCalls == { i \in 1..Len(calls) : calls[i].op = "run" }
KillCallsMade == { i \in 1..Len(calls) : calls[i].op = "kill" }

\* The environment registered by call i was the target of a later docker kill.
TornDown(i) ==
    \E j \in KillCallsMade :
        j > i /\ calls[j].cid = calls[i].cid /\ calls[j].name = calls[i].name

AllTornDown == \A i \in RunCalls : TornDown(i)

\* C1: whenever execute has returned or propagated an error (AST walked, EXIT
\* raised, or a fatal error), every environment registered during the run has
\* had a docker kill issued for it, whatever the earlier kills returned, and
\* running_containers is empty.
C1_CleanupOnEveryExit ==
    phase = "done" => (running_containers = << >> /\ AllTornDown)

\* C1 witness: a run ended by a fatal error in which a docker kill failed and
\* the next registered environment was killed all the same.
C1_Witness ==
    /\ phase = "done" /\ exc = ValueErrorName
    /\ \E j \in KillCallsMade :
          /\ calls[j].rc # 0
          /\ j + 1 \in KillCallsMade
          /\ calls[j + 1].cid # calls[j].cid

\* C3: once an EXIT node has been dispatched nothing is dispatched after it
\* and no frame is left; the run ends with every environment torn down, no
\* exception propagating, and ExecutionStopped caught exactly once.
C3_ExitStopsEverything ==
    /\ caught <= 1
    /\ \A i \in 1..Len(ran) :
          nodes[ran[i]].type = "EXIT" =>
              /\ i = Len(ran)
              /\ frames = << >>
              /\ phase \in {"except", "finally", "done"}
              /\ phase = "done" =>
                    /\ exc = "" /\ caught = 1
                    /\ running_containers = << >> /\ AllTornDown

\* C3 witness: a finished run whose EXIT stood in the else branch of an IF
\* inside a nested pipeline, with two environments created before it.
C3_Witness ==
    /\ phase = "done" /\ ran # << >>
    /\ nodes[Last(ran)].type = "EXIT"
    /\ \E e \in 1..Len(nodes) :
          /\ nodes[e].type = "ELSE"
          /\ \E k \in 1..Len(blocks[nodes[e].body]) :
                blocks[nodes[e].body][k] = Last(ran)
    /\ Cardinality(RunCalls) = 2
    /\ Cardinality(KillCallsMade) = 2

\* C2: docker run is issued at most once for a pipeline name within one run.
C2_OneCreatePerName ==
    \A i, j \in RunCalls : calls[i].name = calls[j].name => i = j

\* C4: a run that ended without EXIT and without a fatal error dispatched its
\* statements in program order, each once (so one docker exec per STEP, one
\* print per MSG).
C4_ProgramOrderOnce ==
    (phase = "done" /\ exc = "" /\ caught = 0) =>
        \A i, j \in 1..Len(ran) : i < j => ran[i] < ran[j]

\* C5: a block that is being executed in a container keeps that container id
\* for as long as it runs, in particular once a nested pipeline of the block
\* has finished.
C5_ParentHandleKept ==
    [][\A k \in 1..Len(frames) :
          (k <= Len(frames') /\ frames[k].fn = "block" /\ Truthy(frames[k].cid))
              => frames'[k].cid = frames[k].cid]_vars

\* The condition of an IF as the specification reads it: an absent variable
\* equals no literal.
ConditionHolds(node, vs) ==
    LET equal == node.variable \in DOMAIN vs /\ vs[node.variable] = node.value
    IN  IF node.operator = "==" THEN equal ELSE ~equal

\* C6: an IF runs its body exactly when its condition holds.
C6_IfRunsBodyIffConditionHolds ==
    [][(AtNode /\ Cur.type = "IF") =>
          ((Len(frames') = Len(frames) + 1 /\ Last(frames').block = Cur.body)
              <=> ConditionHolds(Cur, variables))]_vars

\* C7: a pipeline started with no helper_image and no parent container
\* raises a configuration error, and no docker call was made before it.
C7_ConfigurationErrorBeforeAnyCall ==
    [][(/\ Executing /\ Top.fn = "run_pipeline" /\ Top.pc = "start"
        /\ ~Truthy(nodes[Top.node].helper_image)
        /\ Top.cid = PyNone)
          => (exc' \in {ValueErrorName, ValueErrorParent} /\ Len(calls) = 0)]_vars

\* The number of blocks left open by the first k tokens; -1 once an END
\* found no block to close.
RECURSIVE OpenBlocks(_, _)
OpenBlocks(ts, k) ==
    IF k = 0 THEN 0
    ELSE LET d == OpenBlocks(ts, k - 1)
         IN  IF d < 0 THEN d
             ELSE IF ts[k].kind \in {"PIPELINE", "IF"} THEN d + 1
             ELSE IF ts[k].kind = "END" THEN d - 1
             ELSE d

\* C8: parsing ends in an error whenever an END has no open block or a block
\* is left open at the end of the input; execution starts only when every
\* opened block was closed.
C8_UnbalancedInputRejected ==
    (phase # "parse" /\ OpenBlocks(tokens, Len(tokens)) # 0)
        => phase = "parse_error"

\* C9: a line that matches no statement form ends the parse with an error,
\* at that line.
C9_UnrecognisedLineRejected ==
    \A i \in 1..pos :
        tokens[i].kind = "JUNK" => (phase = "parse_error" /\ pos = i)

\* The kinds of the blocks left open by the first k tokens, innermost last:
\* an ELSE turns the open IF into an open ELSE.
RECURSIVE OpenKinds(_, _)
OpenKinds(ts, k) ==
    IF k = 0 THEN << >>
    ELSE LET o == OpenKinds(ts, k - 1)
         IN  IF ts[k].kind \in {"PIPELINE", "IF"} THEN Append(o, ts[k].kind)
             ELSE IF ts[k].kind = "ELSE" /\ o # << >> THEN Append(ButLast(o), "ELSE")
             ELSE IF ts[k].kind = "END" /\ o # << >> THEN ButLast(o)
             ELSE o

ElseBelongsToIf(ts, k) ==
    LET o == OpenKinds(ts, k - 1) IN o # << >> /\ Last(o) = "IF"

\* C10: an ELSE: line that does not belong to an IF without else branch ends
\* the parse with an error at that line, and only IF nodes carry an "else".
C10_StrayElseRejected ==
    /\ \A i \in 1..pos :
          (tokens[i].kind = "ELSE" /\ ~ElseBelongsToIf(tokens, i))
              => (phase = "parse_error" /\ pos = i)
    /\ \A n \in 1..Len(nodes) : nodes[n].else # Absent => nodes[n].type = "IF"

\* The decimal text of an exit code.
RcText(rc) == << "0", "1", "2", "3", "4" >>[rc + 1]

\* A step of run_step in which docker exec was issued.
ExecIssued == Len(calls') = Len(calls) + 1 /\ Last(calls').op = "exec"

\* C11: after every executed STEP last_rc is the exit code of that step and
\* the variable environment holds it, as text, under LAST_RC.
C11_LastRcMirrored ==
    [][ExecIssued =>
          /\ last_rc' = Last(calls').rc
          /\ "LAST_RC" \in DOMAIN variables'
          /\ variables'["LAST_RC"] = RcText(last_rc')]_vars

\* A message with every placeholder whose name the environment holds
\* replaced by the value, the other pieces as written.
Substituted(message, vs) ==
    [k \in 1..Len(message) |->
        IF message[k].var # "" /\ message[k].var \in DOMAIN vs
        THEN vs[message[k].var] ELSE message[k].text]

\* C12: a MSG node emits its template with the placeholders of known names
\* replaced by their current values and the others left as written.
C12_MessageSubstituted ==
    [][(AtNode /\ Cur.type = "MSG") =>
          printed' = Append(printed, Substituted(Cur.message, variables))]_vars

\* run_pipeline is about to resolve the container of its pipeline.
StartingPipeline == Executing /\ Top.fn = "run_pipeline" /\ Top.pc = "start"

\* C13: a PIPELINE node without a name, started with a parent container,
\* raises nothing, issues no docker call, registers nothing, and has its body
\* walked in the parent's container.
C13_NamelessPipelineSharesParent ==
    [][(StartingPipeline /\ ~Truthy(nodes[Top.node].name) /\ Truthy(Top.cid)) =>
          /\ exc' = ""
          /\ Len(calls') = Len(calls)
          /\ running_containers' = running_containers
          /\ Len(frames') = Len(frames) + 1
          /\ Last(frames').block = nodes[Top.node].body
          /\ Last(frames').cid = Top.cid]_vars

\* C14: once a docker run has failed the run is being aborted with a fatal
\* error: the walk has stopped, the pipeline is not registered, and when the
\* run has ended the environments created before are torn down.
C14_CreateFailureAborts ==
    \A i \in RunCalls :
        calls[i].rc # 0 =>
            /\ phase \in {"except", "finally", "done"}
            /\ exc \notin {"", ExecutionStopped}
            /\ \A k \in 1..Len(running_containers) :
                  running_containers[k].cid # calls[i].cid
            /\ phase = "done" => AllTornDown

\* A step in which docker kill was issued or a registry entry removed.
TearingDown ==
    \/ Len(calls') > Len(calls) /\ Last(calls').op = "kill"
    \/ Len(running_containers') < Len(running_containers)

\* C15: no environment is killed or unregistered while the body of a
\* pipeline is still being walked, in particular not when a nested pipeline
\* finishes.
C15_NoTeardownBeforeRunEnds ==
    [][TearingDown => \A k \in 1..Len(frames) : frames[k].fn # "block"]_vars

\* The state right after parse(): the executor is entered, nothing dispatched.
JustParsed == phase = "exec" /\ ran = << >>

\* The PIPELINE nodes of the top-level block.
TopLevelPipelines == { n \in 1..Len(nodes) :
    /\ nodes[n].type = "PIPELINE"
    /\ \E k \in 1..Len(blocks[1]) : blocks[1][k] = n }

\* The environment holds parameter value v under key: present iff v is given.
Seeded(vs, key, v) ==
    IF Truthy(v) THEN key \in DOMAIN vs /\ vs[key] = v ELSE key \notin DOMAIN vs

\* C16: after parsing a script with one top-level pipeline, the environment
\* holds that pipeline's helper_image, start_command and name under the keys
\* helper_image, start_command and name, each only when present, whatever the
\* nested pipelines say.
C16_TopLevelParametersSeeded ==
    JustParsed =>
        \A p \in TopLevelPipelines :
            TopLevelPipelines = {p} =>
                /\ Seeded(variables, "helper_image", nodes[p].helper_image)
                /\ Seeded(variables, "start_command", nodes[p].start_command)
                /\ Seeded(variables, "name", nodes[p].name)

\* C17: in every AST the parser produces, only IF nodes carry an else branch,
\* every else branch is an ELSE node, and no ELSE node is an element of a
\* block, the top-level block included.
C17_ElseOnlyUnderIf ==
    phase \notin {"parse", "parse_error"} =>
        /\ \A n \in 1..Len(nodes) :
              nodes[n].else # Absent =>
                  nodes[n].type = "IF" /\ nodes[nodes[n].else].type = "ELSE"
        /\ \A b \in 1..Len(blocks) : \A k \in 1..Len(blocks[b]) :
              nodes[blocks[b][k]].type # "ELSE"


\* C18: an IF runs exactly one of: its body, when its condition holds; its
\* else branch, when the condition does not hold and there is one; nothing,
\* leaving variables, registry and last_rc as they were, otherwise.
C18_IfRunsOneBranch ==
    [][(AtNode /\ Cur.type = "IF") =>
          IF ConditionHolds(Cur, variables)
          THEN /\ Len(frames') = Len(frames) + 1
               /\ Last(frames').block = Cur.body
          ELSE IF Cur.else # Absent
          THEN /\ Len(frames') = Len(frames) + 1
               /\ Last(frames').block = nodes[Cur.else].body
          ELSE /\ Len(frames') = Len(frames)
               /\ variables' = variables
               /\ running_containers' = running_containers
               /\ last_rc' = last_rc]_vars


\* The node a node hangs under: the owner of the block it is an element of,
\* or the node it is the else branch of; 0 for the elements of the top-level
\* block and for a replaced else branch.
ParentNode(n) ==
    LET owners == { m \in 1..Len(nodes) :
                      \/ nodes[m].else = n
                      \/ /\ nodes[m].body # Absent
                         /\ \E k \in 1..Len(blocks[nodes[m].body]) :
                               blocks[nodes[m].body][k] = n }
    IN  IF owners = {} THEN 0 ELSE CHOOSE m \in owners : TRUE

\* The name of the innermost pipeline whose body a node lies in, through
\* any IF and ELSE blocks; PyNone when there is none.
RECURSIVE EnclosingPipelineName(_)
EnclosingPipelineName(n) ==
    LET m == ParentNode(n)
    IN  IF m = 0 THEN PyNone
        ELSE IF nodes[m].type = "PIPELINE" THEN nodes[m].name
        ELSE EnclosingPipelineName(m)

\* C19: the exec call of a STEP in the body of a pipeline named N runs
\* /pipeline/N/<script>; /pipeline/<script> only when there is no such name.
C19_StepPathNamesPipeline ==
    [][(AtNode /\ Cur.type = "STEP" /\ ExecIssued) =>
          LET N == EnclosingPipelineName(CurId)
          IN  Last(calls').path =
                  IF Truthy(N) THEN << "/pipeline", N, Cur.script >>
                  ELSE << "/pipeline", Cur.script >>]_vars


\* A container id that is live: docker run returned it, it is registered, and
\* no docker kill has ended it since.
Live(cid) ==
    /\ Truthy(cid)
    /\ \E k \in 1..Len(running_containers) : running_containers[k].cid = cid
    /\ \E i \in RunCalls :
          /\ calls[i].cid = cid /\ calls[i].rc = 0
          /\ \A j \in KillCallsMade : j > i => calls[j].cid # cid

\* C20: every STEP is executed with a container id that is live at that
\* moment, never with None and never with the id of a killed container
\* (stated for the runs in which every docker run succeeded).
C20_StepTargetsLiveContainer ==
    [][(/\ AtNode /\ Cur.type = "STEP"
        /\ \A i \in RunCalls : calls[i].rc = 0) => Live(Top.cid)]_vars

============================================================================
